---- MODULE Spec2Model ----
(***************************************************************************)
(* A model of Spectra's SparseRegularInverse<Scalar, Uplo> operator        *)
(* (include/MatOp/SparseRegularInverse.h): the constructor, rows(),        *)
(* cols(), mat_prod() and solve(), together with the parts of Eigen they   *)
(* call: SparseMatrix::selfadjointView<Uplo>() * x and                     *)
(* ConjugateGradient<SparseMatrix> (compute / solve) with its default      *)
(* template arguments (UpLo = Lower, DiagonalPreconditioner).              *)
(*                                                                         *)
(* Scalar is modelled by exact rationals <<num, den>> (den > 0, lowest     *)
(* terms) extended with one absorbing non-finite value that stands for the *)
(* IEEE results of a division by zero (inf, -inf, NaN).                    *)
(***************************************************************************)
EXTENDS Integers, Sequences, FiniteSets, TLC

----------------------------------------------------------------------------
(* Bounds of the explored input space.                                     *)

\* stored off-diagonal entries of the caller's matrix range over 0..MaxOff
MaxOff == 1
\* entries of the caller's input vectors range over 0..MaxX
MaxX == 1
\* number of caller-owned cells that follow the n mapped cells of a buffer
Pad == 1

\* Stored diagonal entries.  The range is a fixed set: conjugate gradient is
\* evaluated in exact rational arithmetic, and with a diagonal entry of 3 the
\* numerators of the intermediate quantities leave the integer range of the
\* model checker.
DiagVals == {0, 1, 2}
OffVals == 0..MaxOff
XVals == 0..MaxX

\* Shapes <<rows, cols>> of the matrices handed to the constructor.
SquareShapes == {<<1, 1>>, <<2, 2>>}
OtherShapes == {<<1, 2>>, <<2, 1>>, <<3, 4>>}
Shapes == SquareShapes \cup OtherShapes

----------------------------------------------------------------------------
(* Scalar arithmetic.                                                      *)

\* F applied to the value of e, which is computed once
Let(e, F(_)) == CHOOSE r \in {F(t) : t \in {e}} : TRUE

Abs(a) == IF a < 0 THEN 0 - a ELSE a

RECURSIVE GCD(_, _)
GCD(a, b) == IF b = 0 THEN a ELSE GCD(b, a % b)

NonFinite == <<0, 0>>
IsFinite(q) == q[2] # 0
Rat(k) == <<k, 1>>
Zero == Rat(0)

Normalize(num, den) ==
    LET g == GCD(Abs(num), den)
    IN  <<num \div g, den \div g>>

RNeg(p) == IF IsFinite(p) THEN <<0 - p[1], p[2]>> ELSE NonFinite

RAdd(p, q) ==
    IF ~IsFinite(p) \/ ~IsFinite(q) THEN NonFinite
    ELSE LET g == GCD(p[2], q[2])
         IN  Normalize(p[1] * (q[2] \div g) + q[1] * (p[2] \div g),
                       (p[2] \div g) * q[2])

RMul(p, q) ==
    IF ~IsFinite(p) \/ ~IsFinite(q) THEN NonFinite
    ELSE LET g1 == GCD(Abs(p[1]), q[2])
             g2 == GCD(Abs(q[1]), p[2])
         IN  <<(p[1] \div g1) * (q[1] \div g2), (p[2] \div g2) * (q[2] \div g1)>>

\* 1/q; a division by zero gives a non-finite value
RInv(q) ==
    IF ~IsFinite(q) \/ q[1] = 0 THEN NonFinite
    ELSE IF q[1] < 0 THEN <<0 - q[2], 0 - q[1]>> ELSE <<q[2], q[1]>>

RDiv(p, q) == RMul(p, RInv(q))

\* a * 2^k < c for integers a >= 0, k >= 0, c, without forming 2^k
RECURSIVE ScaledLess(_, _, _)
ScaledLess(a, k, c) ==
    IF k = 0 \/ c <= 1 THEN a < c
    ELSE ScaledLess(a, k - 1, (c + 1) \div 2)

\* q < 2^(-k) and q <= 2^(-k) for a rational q >= 0; false for a non-finite q
BelowPow2(q, k) == IsFinite(q) /\ ScaledLess(q[1], k, q[2])
AtMostPow2(q, k) == IsFinite(q) /\ ScaledLess(q[1], k, q[2] + 1)

----------------------------------------------------------------------------
(* Dense vectors: sequences of scalars.                                    *)

RatVec(v) == [k \in 1..Len(v) |-> Rat(v[k])]
ZeroVec(n) == [k \in 1..n |-> Zero]
VecFinite(v) == \A k \in 1..Len(v) : IsFinite(v[k])

RECURSIVE DotFrom(_, _, _)
DotFrom(u, v, k) ==
    IF k > Len(u) THEN Zero
    ELSE RAdd(RMul(u[k], v[k]), DotFrom(u, v, k + 1))

Dot(u, v) == DotFrom(u, v, 1)
SquaredNorm(v) == Dot(v, v)

\* u + a*v
Axpy(u, a, v) == [k \in 1..Len(u) |-> RAdd(u[k], RMul(a, v[k]))]
CwiseProduct(u, v) == [k \in 1..Len(u) |-> RMul(u[k], v[k])]

----------------------------------------------------------------------------
(* The caller's sparse matrix.  A matrix is a record of its shape and its  *)
(* coefficients; a coefficient of 0 is an entry that is not stored.        *)

Cells(r, c) == (1..r) \X (1..c)

\* every cell chosen independently
FullMatrices(r, c) ==
    {[rows |-> r, cols |-> c, val |-> f] :
        f \in {g \in [Cells(r, c) -> DiagVals \cup OffVals] :
                  \A ij \in Cells(r, c) :
                      g[ij] \in (IF ij[1] = ij[2] THEN DiagVals ELSE OffVals)}}

\* one value on the diagonal, one value everywhere else
BandedMatrices(r, c) ==
    {[rows |-> r, cols |-> c,
      val |-> [ij \in Cells(r, c) |-> IF ij[1] = ij[2] THEN d ELSE o]] :
        d \in DiagVals, o \in OffVals}

Matrices(r, c) ==
    IF r * c <= 4 THEN FullMatrices(r, c) ELSE BandedMatrices(r, c)

AllMatrices == UNION {Matrices(sh[1], sh[2]) : sh \in Shapes}

UpLoFlags == {"Lower", "Upper"}

\* the cells of the triangle named by the flag, diagonal included
InTriangle(uplo, i, j) == IF uplo = "Lower" THEN i >= j ELSE i <= j

----------------------------------------------------------------------------
(* Eigen: mat.selfadjointView<UpLo>() * x for a sparse mat.  The stored    *)
(* entries are visited column by column; an entry outside the flagged      *)
(* triangle is skipped, a diagonal entry contributes once, and an          *)
(* off-diagonal entry (i,j) contributes to y[i] and, mirrored, to y[j].    *)

\* the product that forgets the mirrored contribution of off-diagonal entries
RECURSIVE SelfadjointAcc_nomirror(_, _, _, _, _)
SelfadjointAcc_nomirror(m, uplo, x, k, y) ==
    IF k > m.rows * m.cols THEN y
    ELSE LET i == ((k - 1) % m.rows) + 1
             j == ((k - 1) \div m.rows) + 1
             v == Rat(m.val[<<i, j>>])
             y1 == IF InTriangle(uplo, i, j)
                   THEN [y EXCEPT ![i] = RAdd(@, RMul(v, x[j]))]
                   ELSE y
         IN  SelfadjointAcc_nomirror(m, uplo, x, k + 1, y1)

\* the product that reads every stored entry (mat * x, no symmetric view)
RECURSIVE SelfadjointAcc_full(_, _, _, _, _)
SelfadjointAcc_full(m, uplo, x, k, y) ==
    IF k > m.rows * m.cols THEN y
    ELSE LET i == ((k - 1) % m.rows) + 1
             j == ((k - 1) \div m.rows) + 1
             v == Rat(m.val[<<i, j>>])
             y1 == IF i = j
                   THEN [y EXCEPT ![j] = RAdd(@, RMul(v, x[j]))]
                   ELSE IF InTriangle(uplo, i, j)
                   THEN [y EXCEPT ![i] = RAdd(@, RMul(v, x[j])),
                                  ![j] = RAdd(@, RMul(v, x[i]))]
                   ELSE [y EXCEPT ![i] = RAdd(@, RMul(v, x[j]))]
         IN  SelfadjointAcc_full(m, uplo, x, k + 1, y1)

\* k runs over the cells in column-major order; y accumulates the result
RECURSIVE SelfadjointAcc(_, _, _, _, _)
SelfadjointAcc(m, uplo, x, k, y) ==
    IF k > m.rows * m.cols THEN y
    ELSE LET i == ((k - 1) % m.rows) + 1
             j == ((k - 1) \div m.rows) + 1
             v == Rat(m.val[<<i, j>>])
             y1 == IF i = j
                   THEN [y EXCEPT ![j] = RAdd(@, RMul(v, x[j]))]
                   ELSE IF InTriangle(uplo, i, j)
                   THEN [y EXCEPT ![i] = RAdd(@, RMul(v, x[j])),
                                  ![j] = RAdd(@, RMul(v, x[i]))]
                   ELSE y
         IN  SelfadjointAcc(m, uplo, x, k + 1, y1)

SelfadjointProd(m, uplo, x) == SelfadjointAcc(m, uplo, x, 1, ZeroVec(m.rows))

\* m_mat.triangularView<Uplo>() * x: the stored triangle without its mirror
MatProdExpr_triangular(m, uplo, x) ==
    SelfadjointAcc_nomirror(m, uplo, x, 1, ZeroVec(m.rows))

\* m_mat * x: every stored entry, whatever the triangle
MatProdExpr_plain(m, uplo, x) ==
    SelfadjointAcc_full(m, uplo, x, 1, ZeroVec(m.rows))

\* the right-hand side of mat_prod: m_mat.selfadjointView<Uplo>() * x
MatProdExpr(m, uplo, x) == SelfadjointProd(m, uplo, x)

----------------------------------------------------------------------------
(* Eigen: ConjugateGradient<SparseMatrix>.                                 *)

\* the triangle the solver reads: the UpLo template argument of
\* ConjugateGradient, left at its default in the declaration of m_cg
CgUpLo == "Lower"

\* the default tolerance is the machine epsilon of Scalar = double, 2^-52
TolExp == 52
\* the smallest normalised double is 2^-1022
MinExp == 1022

\* IterativeSolverBase::maxIterations() with no cap set: twice the columns
MaxIterations(m) == 2 * m.cols

\* DiagonalPreconditioner::factorize: the inverse of each stored diagonal
\* entry, and 1 where the entry is missing or zero
InvDiag(m) ==
    [j \in 1..m.cols |->
        IF m.val[<<j, j>>] # 0 THEN RInv(Rat(m.val[<<j, j>>])) ELSE Rat(1)]

\* the solver as default-constructed, and after compute(mat)
DefaultCg ==
    [isInitialized |-> FALSE, invdiag |-> <<>>, iterations |-> 0 - 1,
     error2 |-> Zero, info |-> "Success"]

Compute(m) ==
    [isInitialized |-> TRUE, invdiag |-> InvDiag(m), iterations |-> 0 - 1,
     error2 |-> Zero, info |-> "Success"]

\* residualNorm2 < threshold, threshold = max(tol*tol*rhsNorm2, min)
BelowThreshold(r2, rhsNorm2) ==
    \/ BelowPow2(RDiv(r2, rhsNorm2), 2 * TolExp)
    \/ BelowPow2(r2, MinExp)

\* one pass through the body of the loop of internal::conjugate_gradient,
\* from the state s = [x, residual, p, absNew, i, residualNorm2, done];
\* done is set when the loop is left through its break
CgIteration(m, invdiag, rhsNorm2, s) ==
    Let(SelfadjointProd(m, CgUpLo, s.p), LAMBDA tmp :
    Let(RDiv(s.absNew, Dot(s.p, tmp)), LAMBDA alpha :
    Let(Axpy(s.residual, RNeg(alpha), tmp), LAMBDA res1 :
    Let(SquaredNorm(res1), LAMBDA r2 :
        IF BelowThreshold(r2, rhsNorm2)
        THEN [s EXCEPT !.x = Axpy(s.x, alpha, s.p), !.residual = res1,
                       !.residualNorm2 = r2, !.done = TRUE]
        ELSE Let(CwiseProduct(invdiag, res1), LAMBDA z :
             Let(Dot(res1, z), LAMBDA absNew1 :
                 [x |-> Axpy(s.x, alpha, s.p),
                  residual |-> res1,
                  p |-> Axpy(z, RDiv(absNew1, s.absNew), s.p),
                  absNew |-> absNew1,
                  i |-> s.i + 1,
                  residualNorm2 |-> r2,
                  done |-> FALSE]))))))

\* while(i < maxIters) { ... if(residualNorm2 < threshold) break; ... i++; }
RECURSIVE CgLoop(_, _, _, _, _)
CgLoop(m, invdiag, rhsNorm2, maxIters, s) ==
    IF s.done \/ s.i >= maxIters THEN s
    ELSE Let(CgIteration(m, invdiag, rhsNorm2, s), LAMBDA s1 :
             CgLoop(m, invdiag, rhsNorm2, maxIters, s1))

\* internal::conjugate_gradient(mat, rhs, x, precond, iters, tol_error):
\* the solution and the iteration count and squared relative error it
\* writes back
ConjugateGradientRun(m, invdiag, rhs, x0, maxIters) ==
    Let(Axpy(rhs, Rat(0 - 1), SelfadjointProd(m, CgUpLo, x0)), LAMBDA residual :
    Let(SquaredNorm(rhs), LAMBDA rhsNorm2 :
    Let(SquaredNorm(residual), LAMBDA residualNorm2 :
        IF rhsNorm2 = Zero
        THEN [x |-> ZeroVec(m.cols), iterations |-> 0, error2 |-> Zero]
        ELSE IF BelowThreshold(residualNorm2, rhsNorm2)
        THEN [x |-> x0, iterations |-> 0,
              error2 |-> RDiv(residualNorm2, rhsNorm2)]
        ELSE Let(CwiseProduct(invdiag, residual), LAMBDA p :
             Let(CgLoop(m, invdiag, rhsNorm2, maxIters,
                        [x |-> x0, residual |-> residual, p |-> p,
                         absNew |-> Dot(residual, p), i |-> 0,
                         residualNorm2 |-> residualNorm2, done |-> FALSE]),
                 LAMBDA s :
                 [x |-> s.x, iterations |-> s.i,
                  error2 |-> RDiv(s.residualNorm2, rhsNorm2)])))))

\* the iteration cap taken from what the previous solve left in m_iterations
IterationCap_stale(cg, m) ==
    IF cg.iterations >= 0 THEN cg.iterations ELSE MaxIterations(m)

\* m_iterations = Base::maxIterations() at the start of every solve
IterationCap(cg, m) == MaxIterations(m)

\* ConjugateGradient::_solve_impl: the guess is set to zero, the iteration
\* count and error are reset, the iteration is run, and info records whether
\* the tolerance was reached.  y is the solution, cg the solver afterwards.
CgSolve(cg, m, b) ==
    Let(ConjugateGradientRun(m, cg.invdiag, b, ZeroVec(m.cols),
                             IterationCap(cg, m)), LAMBDA run :
        [y |-> run.x,
         cg |-> [cg EXCEPT !.iterations = run.iterations,
                           !.error2 = run.error2,
                           !.info = IF AtMostPow2(run.error2, 2 * TolExp)
                                    THEN "Success" ELSE "NoConvergence"]])

----------------------------------------------------------------------------
(* The operator object and its caller.                                     *)

VARIABLES
    mat,           \* the caller's matrix, which m_mat refers to
    Uplo,          \* the Uplo template argument of the operator
    state,         \* "Uninitialized", "Ready", or "Failed" (constructor threw)
    m_n,           \* the cached dimension
    m_cg,          \* the conjugate-gradient solver
    x_in,          \* the caller's input buffer
    y_out,         \* the caller's output buffer
    lastOp,        \* the last call made
    result,        \* how it ended: "returned", or the exception thrown
    ret,           \* <<value>> returned by rows()/cols(), <<>> for void
    x_orig,        \* for solve applied to the output of mat_prod(x): x
    computeCount,  \* number of m_cg.compute() calls so far
    mat0,          \* the matrix as it was before construction
    x_arg,         \* the vector the caller passed to the last mat_prod/solve
    itersFound     \* m_cg.iterations as the last solve call found it

vars == <<mat, Uplo, state, m_n, m_cg, x_in, y_out, lastOp, result, ret,
          x_orig, computeCount, mat0, x_arg, itersFound>>

\* content of buffer cells that nobody has written: a pattern that no
\* computation produces
Guard == <<1, 0>>

Vectors(n) == [1..n -> XVals]

\* a caller buffer holding v, followed by Pad cells of its own
CallerBuf(v) ==
    [k \in 1..(Len(v) + Pad) |-> IF k <= Len(v) THEN v[k] ELSE Guard]

\* Map<const Vector>(ptr, n): the first n cells of the buffer
MapConstVec(buf, n) == [k \in 1..n |-> buf[k]]

\* an assignment that clears the whole buffer before writing the n results
MapVecAssign_clear(buf, n, v) ==
    [k \in 1..Len(buf) |-> IF k <= n THEN v[k] ELSE Zero]

\* Map<Vector>(ptr, n) = v: the first n cells are overwritten
MapVecAssign(buf, n, v) ==
    [k \in 1..Len(buf) |-> IF k <= n /\ k <= Len(v) THEN v[k] ELSE buf[k]]

\* a test that only rejects matrices with fewer rows than columns
NotSquare_narrow(m) == m.rows < m.cols

\* the constructor's test: mat_.rows() != mat_.cols()
NotSquare(m) == m.rows # m.cols

\* a dimension that is one short
Dimension_short(m) == m.rows - 1

\* the initialiser m_n(mat_.rows())
Dimension(m) == m.rows

Init ==
    /\ mat \in AllMatrices
    /\ mat0 = mat
    /\ Uplo \in UpLoFlags
    /\ state = "Uninitialized"
    /\ m_n = 0
    /\ m_cg = DefaultCg
    /\ x_in = <<>>
    /\ y_out = <<>>
    /\ lastOp = "none"
    /\ result = "none"
    /\ ret = <<>>
    /\ x_orig = <<>>
    /\ computeCount = 0
    /\ x_arg = <<>>
    /\ itersFound = 0 - 1

\* a constructor that leaves the solver to be set up later
ConstructorBody_lazy(m) ==
    IF NotSquare(m)
    THEN [outcome |-> "invalid_argument", n |-> 0, cg |-> DefaultCg,
          computes |-> 0]
    ELSE [outcome |-> "returned", n |-> Dimension(m), cg |-> DefaultCg,
          computes |-> 0]

\* SparseRegularInverse(mat_): the members are initialised, a non-square
\* matrix throws std::invalid_argument, otherwise m_cg.compute(mat_) runs
ConstructorBody(m) ==
    IF NotSquare(m)
    THEN [outcome |-> "invalid_argument", n |-> 0, cg |-> DefaultCg,
          computes |-> 0]
    ELSE [outcome |-> "returned", n |-> Dimension(m), cg |-> Compute(m),
          computes |-> 1]

\* The caller constructs the operator from its matrix.  When the constructor
\* throws no object exists; otherwise the caller allocates the two buffers.
Constructor ==
    /\ state = "Uninitialized"
    /\ \E c \in {ConstructorBody(mat)} :
           /\ result' = c.outcome
           /\ state' = IF c.outcome = "returned" THEN "Ready" ELSE "Failed"
           /\ m_n' = c.n
           /\ m_cg' = c.cg
           /\ computeCount' = computeCount + c.computes
           /\ x_in' = IF c.outcome = "returned"
                      THEN CallerBuf(ZeroVec(mat.rows)) ELSE x_in
           /\ y_out' = IF c.outcome = "returned"
                       THEN CallerBuf([k \in 1..mat.rows |-> Guard]) ELSE y_out
    /\ lastOp' = "constructor"
    /\ UNCHANGED <<mat, Uplo, ret, x_orig, mat0, x_arg, itersFound>>

\* int rows() const { return m_n; }
rows ==
    /\ state = "Ready"
    /\ ret' = <<m_n>>
    /\ lastOp' = "rows"
    /\ result' = "returned"
    /\ x_orig' = <<>>
    /\ itersFound' = 0 - 1
    /\ UNCHANGED <<mat, Uplo, state, m_n, m_cg, x_in, y_out, computeCount, mat0,
                   x_arg>>

\* int cols() const { return m_n; }
cols ==
    /\ state = "Ready"
    /\ ret' = <<m_n>>
    /\ lastOp' = "cols"
    /\ result' = "returned"
    /\ x_orig' = <<>>
    /\ itersFound' = 0 - 1
    /\ UNCHANGED <<mat, Uplo, state, m_n, m_cg, x_in, y_out, computeCount, mat0,
                   x_arg>>

\* mat_prod(x_in, y_out): y = m_mat.selfadjointView<Uplo>() * x
mat_prod ==
    /\ state = "Ready"
    /\ \E v \in Vectors(mat.rows) :
         /\ x_arg' = RatVec(v)
         /\ x_in' = CallerBuf(RatVec(v))
         /\ y_out' = MapVecAssign(y_out, m_n,
                MatProdExpr(mat, Uplo, MapConstVec(CallerBuf(RatVec(v)), m_n)))
    /\ lastOp' = "mat_prod"
    /\ result' = "returned"
    /\ ret' = <<>>
    /\ x_orig' = <<>>
    /\ itersFound' = 0 - 1
    /\ UNCHANGED <<mat, Uplo, state, m_n, m_cg, computeCount, mat0>>

\* a solve that throws when the iteration did not converge
SolveBody_checked(cg, m, b) ==
    Let(CgSolve(cg, m, b), LAMBDA r :
        [y |-> r.y, cg |-> r.cg, computes |-> 0,
         outcome |-> IF r.cg.info = "Success" THEN "returned"
                     ELSE "runtime_error"])

\* a solve that sets the solver up again on every call
SolveBody_rebuild(cg, m, b) ==
    Let(CgSolve(Compute(m), m, b), LAMBDA r :
        [y |-> r.y, cg |-> r.cg, computes |-> 1, outcome |-> "returned"])

\* the body of solve(): y = m_cg.solve(x); info() is never looked at
SolveBody(cg, m, b) ==
    Let(CgSolve(cg, m, b), LAMBDA r :
        [y |-> r.y, cg |-> r.cg, computes |-> 0, outcome |-> "returned"])

\* solve(x_in, y_out) with the caller's input buffer holding b
SolveCall(b, orig) ==
    /\ x_arg' = b
    /\ x_in' = CallerBuf(b)
    /\ itersFound' = m_cg.iterations
    /\ \E r \in {SolveBody(m_cg, mat, MapConstVec(CallerBuf(b), m_n))} :
           /\ y_out' = IF r.outcome = "returned"
                       THEN MapVecAssign(y_out, m_n, r.y) ELSE y_out
           /\ m_cg' = r.cg
           /\ computeCount' = computeCount + r.computes
           /\ result' = r.outcome
    /\ lastOp' = "solve"
    /\ ret' = <<>>
    /\ x_orig' = orig
    /\ UNCHANGED <<mat, Uplo, state, m_n, mat0>>

\* The caller solves for a vector of its own, or for the product that the
\* preceding mat_prod call left in the output buffer.
solve ==
    /\ state = "Ready"
    /\ \/ \E v \in Vectors(mat.rows) : SolveCall(RatVec(v), <<>>)
       \/ /\ lastOp = "mat_prod"
          /\ SolveCall(MapConstVec(y_out, mat.rows), <<MapConstVec(x_in, mat.rows)>>)

Next == Constructor \/ rows \/ cols \/ mat_prod \/ solve

Spec == Init /\ [][Next]_vars

----------------------------------------------------------------------------
(* Reference notions used by the properties.                               *)

\* the vectors in the first n cells of the caller's buffers
In == MapConstVec(x_in, mat.rows)
Out == MapConstVec(y_out, mat.rows)

\* the full symmetric matrix: the flagged triangle mirrored over the diagonal
Mirror(m, uplo) ==
    [ij \in Cells(m.rows, m.cols) |->
        IF InTriangle(uplo, ij[1], ij[2]) THEN m.val[ij]
        ELSE m.val[<<ij[2], ij[1]>>]]

RECURSIVE RowSum(_, _, _, _)
RowSum(S, x, i, j) ==
    IF j > Len(x) THEN Zero
    ELSE RAdd(RMul(Rat(S[<<i, j>>]), x[j]), RowSum(S, x, i, j + 1))

\* the dense reference product of a full matrix with a vector
DenseProd(S, x) == [i \in 1..Len(x) |-> RowSum(S, x, i, 1)]

\* nothing is stored outside the flagged triangle
OnlyFlagged(m, uplo) ==
    \A ij \in Cells(m.rows, m.cols) :
        ~InTriangle(uplo, ij[1], ij[2]) => m.val[ij] = 0

\* the two matrices agree on the flagged triangle, diagonal included
SameTriangle(m1, m2, uplo) ==
    \A ij \in Cells(m1.rows, m1.cols) :
        InTriangle(uplo, ij[1], ij[2]) => m1.val[ij] = m2.val[ij]

Remove(seq, k) == [t \in 1..(Len(seq) - 1) |-> IF t < k THEN seq[t] ELSE seq[t + 1]]

\* determinant of the submatrix on the given rows and columns (Laplace)
RECURSIVE Det(_, _, _)
RECURSIVE DetSum(_, _, _, _)
Det(S, rs, cs) ==
    IF rs = <<>> THEN 1 ELSE DetSum(S, rs, cs, 1)
DetSum(S, rs, cs, k) ==
    IF k > Len(cs) THEN 0
    ELSE (IF k % 2 = 1 THEN 1 ELSE 0 - 1) * S[<<rs[1], cs[k]>>]
            * Det(S, Tail(rs), Remove(cs, k))
         + DetSum(S, rs, cs, k + 1)

\* Sylvester's criterion on a symmetric n x n matrix
PositiveDefinite(S, n) ==
    \A k \in 1..n : Det(S, [t \in 1..k |-> t], [t \in 1..k |-> t]) > 0

\* the caller kept its side: only the flagged triangle is populated and the
\* symmetric matrix it stands for is positive definite
WellFormed ==
    /\ mat.rows = mat.cols
    /\ OnlyFlagged(mat, Uplo)
    /\ PositiveDefinite(Mirror(mat, Uplo), mat.rows)

Calls == {"rows", "cols", "mat_prod", "solve"}

\* the matrices of the two concrete scenarios
Scenario41 ==
    [rows |-> 2, cols |-> 2,
     val |-> (<<1, 1>> :> 4) @@ (<<2, 1>> :> 1) @@ (<<1, 2>> :> 0) @@ (<<2, 2>> :> 3)]
Identity2 ==
    [rows |-> 2, cols |-> 2,
     val |-> (<<1, 1>> :> 1) @@ (<<2, 1>> :> 0) @@ (<<1, 2>> :> 0) @@ (<<2, 2>> :> 1)]

----------------------------------------------------------------------------
(* Properties.                                                             *)

\* C1: construction from a non-square matrix ends with invalid_argument: no
\* operator exists, compute was not called, and the matrix is as before;
\* construction from a square matrix never throws.
C1_ConstructionChecksShape ==
    /\ state = "Failed" =>
          /\ mat0.rows # mat0.cols
          /\ result = "invalid_argument"
          /\ computeCount = 0
          /\ ~m_cg.isInitialized
          /\ mat = mat0
    /\ state = "Ready" => mat0.rows = mat0.cols
    /\ lastOp = "constructor" /\ mat0.rows = mat0.cols =>
          state = "Ready" /\ result = "returned"

C1_Witness ==
    /\ state = "Failed"
    /\ mat.rows = 3
    /\ mat.cols = 4
    /\ lastOp = "constructor"

\* C2: after mat_prod the output holds the dense product of the mirrored
\* stored triangle with the input; [[4,1],[1,3]] stored lower times [1,0] is
\* [4,1] and the identity times [3,5] is [3,5].
C2_MatProdIsDenseProduct ==
    /\ lastOp = "mat_prod" => Out = DenseProd(Mirror(mat, Uplo), In)
    /\ MatProdExpr(Scenario41, "Lower", RatVec(<<1, 0>>)) = RatVec(<<4, 1>>)
    /\ \A uplo \in UpLoFlags :
          MatProdExpr(Identity2, uplo, RatVec(<<3, 5>>)) = RatVec(<<3, 5>>)

C2_Witness ==
    /\ lastOp = "mat_prod"
    /\ mat.rows = 2
    /\ OnlyFlagged(mat, Uplo)
    /\ mat.val[<<1, 2>>] # mat.val[<<2, 1>>]
    /\ In = RatVec(<<1, 1>>)
    /\ Out = RatVec(<<mat.val[<<1, 1>>] + 1, mat.val[<<2, 2>>] + 1>>)

\* C3: round trip: for a positive definite matrix stored in the flagged
\* triangle (either flag), solve applied to the output of mat_prod(x) gives x.
C3_RoundTrip ==
    (lastOp = "solve" /\ x_orig # <<>> /\ WellFormed) => Out = x_orig[1]

\* C4: solve returns normally and writes the n output cells whatever the
\* iteration did; the operator stays Ready.
C4_SolveNeverFails ==
    lastOp = "solve" =>
        /\ result = "returned"
        /\ state = "Ready"
        /\ \A k \in 1..mat.rows : y_out[k] # Guard

C4_Witness ==
    /\ lastOp = "solve"
    /\ m_cg.info = "NoConvergence"
    /\ m_cg.iterations = 2 * m_n
    /\ result = "returned"
    /\ state = "Ready"

\* C5: compute runs exactly once, in the constructor; once Ready the operator
\* stays Ready with the same solver set-up, and no call but the constructor
\* fails.
C5_BuiltOnceThenReady ==
    /\ [](/\ state = "Ready" =>
                /\ computeCount = 1
                /\ m_cg.isInitialized
                /\ m_cg.invdiag = InvDiag(mat)
          /\ state # "Ready" => computeCount = 0 /\ ~m_cg.isInitialized
          /\ lastOp \in Calls => state = "Ready" /\ result = "returned")
    /\ [][state = "Ready" =>
             /\ state' = "Ready"
             /\ computeCount' = computeCount
             /\ m_cg'.isInitialized
             /\ m_cg'.invdiag = m_cg.invdiag]_vars

C5_Witness ==
    /\ state = "Ready"
    /\ lastOp = "solve"
    /\ itersFound >= 0
    /\ x_orig # <<>>
    /\ computeCount = 1

\* C6: rows() and cols() return the dimension fixed at construction, the row
\* and column count of the matrix, after any sequence of calls, and they
\* change nothing.
C6_RowsColsAreN ==
    /\ [](state = "Ready" =>
             /\ m_n = mat0.rows
             /\ m_n = mat0.cols
             /\ lastOp \in {"rows", "cols"} =>
                   ret = <<mat0.rows>> /\ result = "returned")
    /\ [][lastOp' \in {"rows", "cols"} =>
             UNCHANGED <<mat, state, m_n, m_cg, x_in, y_out>>]_vars

C6_Witness ==
    /\ lastOp = "cols"
    /\ ret = <<2>>
    /\ m_cg.iterations >= 0
    /\ Out # ZeroVec(2)

\* C7: the output of solve depends on the input and the matrix only: it is
\* what a freshly set-up solver returns, whatever earlier calls left in the
\* solver.
C7_SolveIgnoresScratch ==
    lastOp = "solve" => Out = CgSolve(Compute(mat), mat, In).y

C7_Witness ==
    /\ lastOp = "solve"
    /\ itersFound = 0
    /\ m_cg.iterations = 1
    /\ VecFinite(Out)

\* C8: the matrix is never written; a mat_prod or solve call leaves the input
\* buffer as the caller passed it and writes the n mapped output cells only.
C8_Frame ==
    /\ mat = mat0
    /\ lastOp \in {"mat_prod", "solve"} =>
          /\ x_in = CallerBuf(x_arg)
          /\ \A k \in (mat.rows + 1)..Len(y_out) : y_out[k] = Guard
          /\ Len(y_out) = mat.rows + Pad

C8_Witness ==
    /\ lastOp = "solve"
    /\ result = "returned"
    /\ mat.rows = 2
    /\ mat.val[<<2, 1>>] # 0
    /\ In = RatVec(<<1, 1>>)
    /\ VecFinite(Out)
    /\ y_out[3] = Guard

\* C9: mat_prod reads the flagged triangle only: every matrix that agrees
\* with the caller's on that triangle gives the same output.
C9_OppositeTriangleIgnored ==
    lastOp = "mat_prod" =>
        \A m2 \in Matrices(mat.rows, mat.cols) :
            SameTriangle(m2, mat, Uplo) => MatProdExpr(m2, Uplo, In) = Out

C9_Witness ==
    /\ lastOp = "mat_prod"
    /\ mat.rows = 2
    /\ ~OnlyFlagged(mat, Uplo)
    /\ In = RatVec(<<1, 1>>)

\* C10: solve inverts the matrix that mat_prod multiplies by, for both
\* flags: B * solve(x) = x with B the mirrored flagged triangle.
C10_SolveInvertsFlaggedMatrix ==
    (lastOp = "solve" /\ WellFormed) => DenseProd(Mirror(mat, Uplo), Out) = In

\* With the flag Lower the operator and the solver read the same triangle:
\* the round trip and the inverse hold.
LowerRoundTrip ==
    (Uplo = "Lower" /\ lastOp = "solve" /\ WellFormed) =>
        /\ DenseProd(Mirror(mat, Uplo), Out) = In
        /\ x_orig # <<>> => Out = x_orig[1]

====
